---- MODULE Spec2Model ----
(***************************************************************************)
(* A model of credis.c, the buffered reply reader of a Redis client.      *)
(*                                                                         *)
(* Bytes are one-character strings.  A pointer into the connection's       *)
(* buffer is the 0-based offset of the byte it points at; NULL is -1.      *)
(* The buffer's memory is the sequence data: data[p+1] is the byte at      *)
(* offset p.  Only the written prefix of the CR_BUFFER_SIZE bytes is kept: *)
(* bytes past Len(data) (and bytes marked UNINIT) were never written, so   *)
(* their content is indeterminate, and offsets outside                     *)
(* 0..CR_BUFFER_SIZE-1 are outside the allocation.                         *)
(***************************************************************************)
EXTENDS Integers, Sequences, FiniteSets, TLC

\* ------------------------------------------------------------ constants

CR_ERROR == "-"
CR_INLINE == "+"
CR_BULK == "$"
CR_MULTIBULK == "*"
CR_INT == ":"

CR_BUFFER_SIZE == 4096
CR_MULTIBULK_SIZE == 64

\* credis.h is not part of the sources: the error codes are distinct
\* negative sentinels, none of them -1.
CREDIS_ERR_SEND == -94
CREDIS_ERR_RECV == -95
CREDIS_ERR_TIMEOUT == -96
CREDIS_ERR_PROTOCOL == -97

NULL == -1

CR == "\r"
LF == "\n"
NUL == "NUL"
UNINIT == "UNINIT"

\* sizeof(char *) of the build
PtrSize == 8

\* credis.h is not part of the sources: the codes credis_type returns are
\* distinct positive numbers.
CREDIS_TYPE_NONE == 1
CREDIS_TYPE_STRING == 2
CREDIS_TYPE_LIST == 3
CREDIS_TYPE_SET == 4

\* ------------------------------------------------------------ memory

Min(a, b) == IF a < b THEN a ELSE b

\* the byte at offset p is one the program wrote
Known(data, p) == p >= 0 /\ p < Len(data) /\ data[p + 1] # UNINIT

\* the byte at offset p is c
Is(data, p, c) == Known(data, p) /\ data[p + 1] = c

\* the byte at offset p is c, or is indeterminate and so may be c
MayBe(data, p, c) == ~Known(data, p) \/ data[p + 1] = c

InBuffer(p) == p >= 0 /\ p < CR_BUFFER_SIZE

\* bytes written at the start of the buffer (recv, vsnprintf): overwrite,
\* the rest of the memory keeps what it held
Overwrite(data, bytes) ==
  bytes \o SubSeq(data, Len(bytes) + 1, Len(data))

\* *p = c.  A store outside the allocation does not change the buffer.
Store(data, p, c) ==
  IF ~InBuffer(p) THEN data
  ELSE IF p < Len(data) THEN [data EXCEPT ![p + 1] = c]
  ELSE data \o [k \in 1..(p - Len(data)) |-> UNINIT] \o <<c>>

\* the zero-terminated string at p, as far as the written memory goes
RECURSIVE CStr(_, _)
CStr(data, p) ==
  IF ~Known(data, p) THEN <<UNINIT>>
  ELSE IF data[p + 1] = NUL THEN <<>>
  ELSE <<data[p + 1]>> \o CStr(data, p + 1)

\* what a caller sees through a char *: NULL, or the string it points at
Deref(data, p) == IF p = NULL THEN <<"NULL">> ELSE CStr(data, p)

\* ------------------------------------------------------------ atoi

DigitVal(c) ==
  CASE c = "0" -> 0 [] c = "1" -> 1 [] c = "2" -> 2 [] c = "3" -> 3
    [] c = "4" -> 4 [] c = "5" -> 5 [] c = "6" -> 6 [] c = "7" -> 7
    [] c = "8" -> 8 [] c = "9" -> 9 [] OTHER -> -1

IsDigit(data, p) == Known(data, p) /\ DigitVal(data[p + 1]) >= 0

IsSpace(data, p) == Known(data, p) /\ data[p + 1] \in {" ", "\t", LF, CR, "\f"}

RECURSIVE Digits(_, _, _)
Digits(data, p, acc) ==
  IF IsDigit(data, p) THEN Digits(data, p + 1, 10 * acc + DigitVal(data[p + 1]))
  ELSE acc

RECURSIVE SkipSpace(_, _)
SkipSpace(data, p) == IF IsSpace(data, p) THEN SkipSpace(data, p + 1) ELSE p

\* atoi(data + p): white space, an optional sign, digits; 0 if there are none
atoi(data, p) ==
  LET q == SkipSpace(data, p) IN
  IF Is(data, q, "-") THEN 0 - Digits(data, q + 1, 0)
  ELSE IF Is(data, q, "+") THEN Digits(data, q + 1, 0)
  ELSE Digits(data, q, 0)

\* ------------------------------------------------------------ cr_findnl

\* the offsets cr_findnl(buf + from, len) tests for '\r': len-1 of them
\* (while (--len)); a len below 1 never counts down to 0 inside the buffer
ScanRange(from, len) ==
  IF len >= 1 THEN from..(from + len - 2) ELSE from..CR_BUFFER_SIZE

\* "\r\n" is at offset p
Hit(data, p) == Is(data, p, CR) /\ Is(data, p + 1, LF)

\* "\r\n" may be at offset p
MayHit(data, p) == MayBe(data, p, CR) /\ MayBe(data, p + 1, LF)

\* The offsets cr_findnl can return (NULL: not found).  Where the scan
\* reads only written bytes there is one; a scan that leaves the
\* received data into memory never written can find "\r\n" there or not.
cr_findnl(data, from, len) ==
  LET R == ScanRange(from, len) IN
  {p \in R : MayHit(data, p) /\ \A q \in R : q < p => ~Hit(data, q)}
    \cup (IF \E q \in R : Hit(data, q) THEN {} ELSE {NULL})

\* ------------------------------------------------------------ transport

\* What cr_receivedata can return for a peer with the bytes `pending' still
\* in flight: some of them (recv returns what has arrived, at most size);
\* with none left -2 (the open socket stays silent until the deadline), 0
\* (the peer closed) or -1 (select or recv failed).  whole: the peer's
\* bytes arrive together.
cr_receivedata(wire, size, whole) ==
  IF wire.pending # <<>>
  THEN LET n == Min(Len(wire.pending), size) IN
       {[rc |-> k, bytes |-> SubSeq(wire.pending, 1, k),
         wire |-> [wire EXCEPT !.pending = SubSeq(wire.pending, k + 1, Len(wire.pending))]]
          : k \in (IF whole THEN {n} ELSE 1..n)}
  ELSE {[rc |-> CASE wire.tail = "silent" -> -2
                  [] wire.tail = "closed" -> 0
                  [] OTHER -> -1,
         bytes |-> <<>>, wire |-> wire]}

\* ------------------------------------------------------------ cr_readln

\* the buffer is empty: cr_readln receives before it scans
Exhausted(buf) == buf.len = 0 \/ buf.idx >= buf.len

\* the scan for "\r\n" of cr_readln
ReadlnFindnl(buf, start) ==
  cr_findnl(buf.data, buf.idx + start, buf.len - buf.idx)

\* ReadlnScan with idx left on the '\n' of the delimiter
ReadlnScanOnLf(buf, start, line, recv) ==
  {IF nl = NULL
     THEN [ret |-> -1, line |-> line, buf |-> buf, recv |-> recv]
     ELSE [ret |-> nl - buf.idx, line |-> buf.idx, recv |-> recv,
           buf |-> [buf EXCEPT !.data = Store(buf.data, nl, NUL), !.idx = nl + 1]]
    : nl \in cr_findnl(buf.data, buf.idx + start, buf.len - buf.idx)}

\* The scan and what follows it: the line's end is zero-terminated, *line
\* is the old idx, idx moves past "\r\n", the length is returned.  recv
\* tells whether the call received first.
ReadlnScan(buf, start, line, recv) ==
  {IF nl = NULL
     THEN [ret |-> -1, line |-> line, buf |-> buf, recv |-> recv]
     ELSE [ret |-> nl - buf.idx, line |-> buf.idx, recv |-> recv,
           buf |-> [buf EXCEPT !.data = Store(buf.data, nl, NUL), !.idx = nl + 2]]
    : nl \in ReadlnFindnl(buf, start)}

\* the buffer after a receive of rx.rc > 0 bytes
Refill(buf, rx) ==
  [buf EXCEPT !.data = Overwrite(buf.data, rx.bytes), !.idx = 0, !.len = rx.rc]

\* cr_readln, with rx the result of the receive it makes when the buffer
\* is exhausted: the possible [ret, line, buf, recv]
cr_readln(buf, start, line, rx) ==
  IF Exhausted(buf)
  THEN IF rx.rc > 0
       THEN ReadlnScan(Refill(buf, rx), start, line, TRUE)
       ELSE {[ret |-> IF rx.rc = 0 THEN 0 ELSE -1, line |-> line,
              buf |-> [buf EXCEPT !.idx = 0, !.len = 0], recv |-> TRUE]}
  ELSE ReadlnScan(buf, start, line, FALSE)

\* ------------------------------------------------------------ commands

Commands ==
  {"ping", "get", "exists", "del", "setnx", "renamenx", "expire", "move", "keys",
   "type", "lrange", "lrem", "sort"}

\* the commands that hand out the scratch array and its length
Arrays == {"keys", "lrange", "sort"}

\* the reply type a command asks cr_sendfandreceive for
RecvType(c) ==
  CASE c \in {"ping", "setnx", "type"} -> CR_INLINE
    [] c \in {"get", "lrem"} -> CR_BULK
    [] c \in Arrays -> CR_MULTIBULK
    [] OTHER -> CR_INT

\* the request a command formats for key
Format(c, key) ==
  CASE c = "ping" -> <<"P", "I", "N", "G", CR, LF>>
    [] c = "get" -> <<"G", "E", "T", " ">> \o key \o <<CR, LF>>
    [] c = "exists" -> <<"E", "X", "I", "S", "T", "S", " ">> \o key \o <<CR, LF>>
    [] c = "del" -> <<"D", "E", "L", "E", "T", "E", " ">> \o key \o <<CR, LF>>
    [] c = "setnx" -> <<"S", "E", "T", "N", "X", " ">> \o key \o <<" ", "1", CR, LF, "v", CR, LF>>
    [] c = "renamenx" -> <<"R", "E", "N", "A", "M", "E", "N", "X", " ">> \o key \o <<" ", "n", CR, LF>>
    [] c = "expire" -> <<"E", "X", "P", "I", "R", "E", " ">> \o key \o <<" ", "1", CR, LF>>
    [] c = "move" -> <<"M", "O", "V", "E", " ">> \o key \o <<" ", "1", CR, LF>>
    [] c = "type" -> <<"T", "Y", "P", "E", " ">> \o key \o <<CR, LF>>
    [] c = "lrange" ->
         <<"L", "R", "A", "N", "G", "E", " ">> \o key \o <<" ", "0", " ", "1", CR, LF>>
    [] c = "lrem" -> <<"L", "R", "E", "M", " ">> \o key \o <<" ", "0", " ", "1", CR, LF>>
    [] c = "sort" -> <<"S", "O", "R", "T", " ">> \o key \o <<CR, LF>>
    [] OTHER -> <<"K", "E", "Y", "S", " ">> \o key \o <<CR, LF>>

\* the commands that turn an integer reply of 0 into -1
Negating == {"exists", "del", "setnx", "renamenx", "expire", "move"}

\* the type code credis_type makes of the string t
TypeCode(t) ==
  CASE t = <<"s", "t", "r", "i", "n", "g">> -> CREDIS_TYPE_STRING
    [] t = <<"l", "i", "s", "t">> -> CREDIS_TYPE_LIST
    [] t = <<"s", "e", "t">> -> CREDIS_TYPE_SET
    [] OTHER -> CREDIS_TYPE_NONE

TypeCodes ==
  {CREDIS_TYPE_NONE, CREDIS_TYPE_STRING, CREDIS_TYPE_LIST, CREDIS_TYPE_SET}

\* What a command makes of cr_sendfandreceive's rc: [rc, out], out being
\* what it stores through its result parameter (NULL: nothing stored).
\* data is the buffer's memory, which the Reply's pointers refer to.
Wrapper(c, res, reply, out, data) ==
  CASE c \in Negating ->
         [rc |-> IF res = 0 /\ reply.integer = 0 THEN -1 ELSE res, out |-> out]
    [] c = "get" ->
         [rc |-> res, out |-> IF res = 0 THEN [set |-> TRUE, val |-> reply.bulk] ELSE out]
    [] c \in Arrays ->
         IF res = 0 THEN [rc |-> reply.multibulk.len, out |-> [set |-> TRUE, val |-> 0]]
         ELSE [rc |-> res, out |-> out]
    [] c = "type" ->
         [rc |-> IF res = 0 THEN TypeCode(Deref(data, reply.bulk)) ELSE res, out |-> out]
    [] c = "lrem" ->
         [rc |-> IF res = 0 THEN reply.integer ELSE res, out |-> out]
    [] OTHER -> [rc |-> res, out |-> out]

\* credis_type's strcmp reads through a null pointer, or on into memory
\* that was never written
StrcmpUndefined(c, res, reply, data) ==
  /\ c = "type" /\ res = 0
  /\ \/ reply.bulk = NULL
     \/ LET t == CStr(data, reply.bulk) IN
        /\ t # <<>> /\ t[Len(t)] = UNINIT
        /\ \E name \in {<<"s", "t", "r", "i", "n", "g">>, <<"l", "i", "s", "t">>,
                         <<"s", "e", "t">>} :
             Len(t) - 1 <= Len(name) /\ SubSeq(t, 1, Len(t) - 1) = SubSeq(name, 1, Len(t) - 1)

NoOut == [set |-> FALSE, val |-> NULL]

\* ------------------------------------------------------------ state

VARIABLES
  pc,      \* where the connection's one caller is: "idle", inside a request
           \* cycle before a cr_readln ("reply", "bulk", "mb_hdr", "mb_pay"),
           \* or "done" (the command has returned)
  cmd,     \* the command of the cycle
  rhnd,    \* the cr_redis: buf (data, idx, len, size) and reply
  line,    \* char *line of the cycle
  bnum,    \* cr_receivemultibulk's bnum
  blen,    \* blen of cr_receivebulk and cr_receivemultibulk
  i,       \* cr_receivemultibulk's i
  wire,    \* the peer: bytes it has sent that no recv has returned yet
           \* (pending) and what it does once they are read (tail)
  rc,      \* what the command returned
  out,     \* what the command stored through its result parameter
  ret,     \* what cr_sendfandreceive returned to the command
  rl,      \* what the cycle's last call of cr_readln returned
  handler, \* the handler cr_receivereply's switch called in this cycle
  recvs,   \* what each cr_receivedata of this cycle returned, in order
  ub,      \* a store went outside the scratch array's allocation
  cycles,  \* request cycles started
  start,   \* the cycle as it was when cr_receivereply began (on: it did),
           \* the bytes the peer sent in answer (sent) and those it still
           \* had to deliver from before (left), what vsnprintf (n) and
           \* cr_senddata (tx) returned, the handle before the call (before)
  trace    \* the line reader alone: the input, and what each call returned

vars ==
  <<pc, cmd, rhnd, line, bnum, blen, i, wire, rc, out, ret, rl, handler, recvs,
    ub, cycles, start, trace>>

\* the cycle's state as one record, for the operators below
M ==
  [pc |-> pc, cmd |-> cmd, rhnd |-> rhnd, line |-> line, bnum |-> bnum,
   blen |-> blen, i |-> i, wire |-> wire, rc |-> rc, out |-> out,
   ret |-> ret, rl |-> rl, handler |-> handler, recvs |-> recvs, ub |-> ub]

Become(s) ==
  /\ pc' = s.pc /\ cmd' = s.cmd /\ rhnd' = s.rhnd /\ line' = s.line
  /\ bnum' = s.bnum /\ blen' = s.blen /\ i' = s.i /\ wire' = s.wire
  /\ rc' = s.rc /\ out' = s.out /\ ret' = s.ret /\ rl' = s.rl
  /\ handler' = s.handler /\ recvs' = s.recvs /\ ub' = s.ub

\* ------------------------------------------------------------ the cycle

\* The command returns: its wrapper turns cr_sendfandreceive's result into
\* the command's result.
Return(s, res) ==
  LET w == Wrapper(s.cmd, res, s.rhnd.reply, s.out, s.rhnd.buf.data) IN
  [s EXCEPT !.pc = "done", !.ret = res, !.rc = w.rc, !.out = w.out]

\* the states a command can return in: where its own code has undefined
\* behaviour, its result is any of the values it can return
Returns(t) ==
  IF t.pc = "done" /\ StrcmpUndefined(t.cmd, t.ret, t.rhnd.reply, t.rhnd.buf.data)
  THEN {[t EXCEPT !.rc = r, !.ub = TRUE] : r \in TypeCodes}
  ELSE {t}

\* One call cr_readln(rhnd, st, &line) in state s: the possible results,
\* each with the state of the peer after it.
Readln(s, st, whole) ==
  IF Exhausted(s.rhnd.buf)
  THEN UNION {{[r |-> r, wire |-> rx.wire, got |-> rx.rc] :
                 r \in cr_readln(s.rhnd.buf, st, s.line, rx)} :
               rx \in cr_receivedata(s.wire, s.rhnd.buf.size, whole)}
  ELSE {[r |-> r, wire |-> s.wire, got |-> 0] :
          r \in cr_readln(s.rhnd.buf, st, s.line, [rc |-> 0, bytes |-> <<>>])}

\* the state after the call of cr_readln that gave x
After(s, x) ==
  [s EXCEPT !.rhnd.buf = x.r.buf, !.line = x.r.line, !.wire = x.wire,
            !.rl = x.r.ret,
            !.recvs = IF x.r.recv THEN Append(@, x.got) ELSE @]

\* bulks[i] = p.  The array holds alloc bytes: an entry past them is a
\* store outside the allocation.
SetBulk(s, p) ==
  LET mb == s.rhnd.reply.multibulk IN
  [s EXCEPT !.rhnd.reply.multibulk.bulks =
              IF s.i < Len(mb.bulks) THEN [mb.bulks EXCEPT ![s.i + 1] = p]
              ELSE Append(mb.bulks, p),
            !.ub = @ \/ (s.i + 1) * PtrSize > mb.alloc,
            !.i = @ + 1]

\* the test of cr_receivemultibulk's loop, and what follows the loop
MultibulkLoop(s) ==
  IF s.bnum # 0 THEN [s EXCEPT !.pc = "mb_hdr"]
  ELSE Return([s EXCEPT !.rhnd.reply.multibulk.len = s.i], 0)

\* cr_receivemultibulk up to its first cr_readln; l is the count's text
cr_receivemultibulk(s, l) ==
  LET n == atoi(s.rhnd.buf.data, l)
      mb == s.rhnd.reply.multibulk
      nsize == ((n \div CR_MULTIBULK_SIZE) + 1) * CR_MULTIBULK_SIZE
  IN MultibulkLoop([s EXCEPT !.handler = "multibulk", !.bnum = n, !.i = 0,
                             !.rhnd.reply.multibulk.alloc =
                                IF n > mb.size THEN nsize ELSE @])

\* MultibulkHeaderStep that sets multibulk.len to the entries recorded so
\* far when it fails
MultibulkHeaderStepPartial(s, x) ==
  LET t == After(s, x) IN
  IF x.r.ret > 0
  THEN IF ~Is(t.rhnd.buf.data, t.line, CR_BULK)
       THEN Return([t EXCEPT !.rhnd.reply.multibulk.len = s.i], CREDIS_ERR_PROTOCOL)
       ELSE LET b == atoi(t.rhnd.buf.data, t.line + 1)
                u == [t EXCEPT !.line = @ + 1, !.blen = b]
            IN IF b = -1
               THEN MultibulkLoop([SetBulk(u, NULL) EXCEPT !.bnum = @ - 1])
               ELSE [u EXCEPT !.pc = "mb_pay"]
  ELSE Return([t EXCEPT !.rhnd.reply.multibulk.len = s.i], CREDIS_ERR_PROTOCOL)

\* the loop's cr_readln(rhnd, 0, &line) gave x
MultibulkHeaderStep(s, x) ==
  LET t == After(s, x) IN
  IF x.r.ret > 0
  THEN IF ~Is(t.rhnd.buf.data, t.line, CR_BULK)
       THEN Return(t, CREDIS_ERR_PROTOCOL)
       ELSE LET b == atoi(t.rhnd.buf.data, t.line + 1)
                u == [t EXCEPT !.line = @ + 1, !.blen = b]
            IN IF b = -1
               THEN MultibulkLoop([SetBulk(u, NULL) EXCEPT !.bnum = @ - 1])
               ELSE [u EXCEPT !.pc = "mb_pay"]
  ELSE Return(t, CREDIS_ERR_PROTOCOL)

\* the loop's cr_readln(rhnd, blen, &line) gave x
MultibulkPayloadStep(s, x) ==
  LET t == After(s, x) IN
  IF x.r.ret # s.blen
  THEN Return(t, CREDIS_ERR_PROTOCOL)
  ELSE MultibulkLoop([SetBulk(t, t.line) EXCEPT !.bnum = @ - 1])

\* cr_receivebulk up to its cr_readln; l is the length's text
cr_receivebulk(s, l) ==
  [s EXCEPT !.handler = "bulk", !.blen = atoi(s.rhnd.buf.data, l), !.line = l,
            !.pc = "bulk"]

\* cr_receivebulk's cr_readln(rhnd, blen, &line) gave x
BulkStep(s, x) ==
  LET t == After(s, x) IN
  IF x.r.ret >= 0
  THEN Return([t EXCEPT !.rhnd.reply.bulk = t.line], 0)
  ELSE Return(t, CREDIS_ERR_PROTOCOL)

cr_receiveinline(s, l) ==
  Return([s EXCEPT !.handler = "inline", !.rhnd.reply.line = l], 0)

cr_receiveint(s, l) ==
  Return([s EXCEPT !.handler = "int",
                   !.rhnd.reply.integer = atoi(s.rhnd.buf.data, l)], 0)

\* cr_receiveerror that keeps the tag byte in the message
cr_receiveerrorWithTag(s, l) ==
  Return([s EXCEPT !.handler = "error", !.rhnd.reply.line = l - 1], CREDIS_ERR_PROTOCOL)

cr_receiveerror(s, l) ==
  Return([s EXCEPT !.handler = "error", !.rhnd.reply.line = l], CREDIS_ERR_PROTOCOL)

\* TagMismatch that lets an integer reply through whatever is expected
TagMismatchLax(prefix, recvtype) ==
  prefix # recvtype /\ prefix # CR_ERROR /\ prefix # CR_INT

\* the reply's first line does not have the tag the command expects
TagMismatch(prefix, recvtype) == prefix # recvtype /\ prefix # CR_ERROR

\* the switch of cr_receivereply
Dispatch(s, prefix, l) ==
  CASE prefix = CR_ERROR -> cr_receiveerror(s, l)
    [] prefix = CR_INLINE -> cr_receiveinline(s, l)
    [] prefix = CR_INT -> cr_receiveint(s, l)
    [] prefix = CR_BULK -> cr_receivebulk(s, l)
    [] prefix = CR_MULTIBULK -> cr_receivemultibulk(s, l)
    [] OTHER -> Return(s, CREDIS_ERR_RECV)

\* cr_receivereply's cr_readln(rhnd, 0, &line) gave x
ReplyStep(s, x) ==
  LET t == After(s, x) IN
  IF x.r.ret > 0
  THEN LET prefix == t.rhnd.buf.data[t.line + 1]
           u == [t EXCEPT !.line = @ + 1]
       IN IF TagMismatch(prefix, RecvType(s.cmd))
          THEN Return(u, CREDIS_ERR_PROTOCOL)
          ELSE Dispatch(u, prefix, u.line)
  ELSE Return(t, CREDIS_ERR_RECV)

\* the states one call of cr_readln, and the code up to the next call or
\* the return, can lead to from s
Steps(s, whole) ==
  CASE s.pc = "reply" ->
         UNION {Returns(ReplyStep(s, x)) : x \in Readln(s, 0, whole)}
    [] s.pc = "bulk" ->
         UNION {Returns(BulkStep(s, x)) : x \in Readln(s, s.blen, whole)}
    [] s.pc = "mb_hdr" ->
         UNION {Returns(MultibulkHeaderStep(s, x)) : x \in Readln(s, 0, whole)}
    [] s.pc = "mb_pay" ->
         UNION {Returns(MultibulkPayloadStep(s, x)) : x \in Readln(s, s.blen, whole)}
    [] OTHER -> {}

\* ------------------------------------------------------------ the peer

CRLF == <<CR, LF>>

\* decimal text of n, -9 <= n <= 99
Itoa(n) ==
  LET d == <<"0", "1", "2", "3", "4", "5", "6", "7", "8", "9">> IN
  IF n < 0 THEN <<"-", d[1 - n]>>
  ELSE IF n < 10 THEN <<d[n + 1]>>
  ELSE <<d[(n \div 10) + 1], d[(n % 10) + 1]>>

\* the wire format of the replies; a bulk is its payload, or Nil
Nil == <<"nil">>
StatusReply(t) == <<CR_INLINE>> \o t \o CRLF
ErrorReply(t) == <<CR_ERROR>> \o t \o CRLF
IntReply(n) == <<CR_INT>> \o Itoa(n) \o CRLF
BulkReply(b) ==
  IF b = Nil THEN <<CR_BULK>> \o Itoa(-1) \o CRLF
  ELSE <<CR_BULK>> \o Itoa(Len(b)) \o CRLF \o b \o CRLF

RECURSIVE BulkReplies(_)
BulkReplies(bs) ==
  IF bs = <<>> THEN <<>> ELSE BulkReply(Head(bs)) \o BulkReplies(Tail(bs))

MultiBulkReply(bs) == <<CR_MULTIBULK>> \o Itoa(Len(bs)) \o CRLF \o BulkReplies(bs)

\* bounds of the replies the peer sends
MaxK == 2
MaxCycles == 1

Payloads == {<<>>, <<"a">>, CRLF}
Bulks == Payloads \cup {Nil}

RECURSIVE SeqsUpTo(_, _)
SeqsUpTo(S, n) ==
  IF n = 0 THEN {<<>>}
  ELSE LET T == SeqsUpTo(S, n - 1) IN
       T \cup {Append(t, x) : t \in {u \in T : Len(u) = n - 1}, x \in S}

\* the well-formed replies, by type
StatusReplies == {StatusReply(<<"O", "K">>)}
IntReplies == {IntReply(n) : n \in {0, 1}}
ErrorReplies == {ErrorReply(<<"E", "R", "R">>), ErrorReply(<<>>)}
BulkSet == {BulkReply(b) : b \in Bulks}
MultiBulkSet == {MultiBulkReply(bs) : bs \in SeqsUpTo(Bulks, MaxK)}

WellFormed ==
  StatusReplies \cup IntReplies \cup ErrorReplies \cup BulkSet \cup MultiBulkSet

\* replies that break the format: nothing at all, an empty line, a bulk
\* whose payload is longer or shorter than declared, a multi-bulk with an
\* element that is no bulk, with a count of -1, with an element missing,
\* with a count above CR_MULTIBULK_SIZE and one element
Malformed ==
  {<<>>, CRLF,
   <<CR_BULK, "1">> \o CRLF \o <<"a", "b">> \o CRLF,
   <<CR_BULK, "2">> \o CRLF \o <<"a">> \o CRLF,
   <<CR_MULTIBULK, "1">> \o CRLF \o StatusReply(<<"x">>),
   <<CR_MULTIBULK>> \o Itoa(-1) \o CRLF,
   <<CR_MULTIBULK, "2">> \o CRLF \o BulkReply(<<"a">>),
   <<CR_MULTIBULK>> \o Itoa(CR_MULTIBULK_SIZE + 1) \o CRLF \o BulkReply(Nil)}

Replies == WellFormed \cup Malformed

ShortKey == <<"k">>
LongKey == [k \in 1..CR_BUFFER_SIZE |-> "k"]
Keys == {ShortKey, LongKey}

\* ------------------------------------------------------------ actions

\* cr_new: the handle is calloc'ed, the buffer and the scratch array are
\* malloc'ed and hold nothing written yet
cr_new ==
  [buf |-> [data |-> <<>>, idx |-> 0, len |-> 0, size |-> CR_BUFFER_SIZE],
   reply |-> [integer |-> 0, line |-> NULL, bulk |-> NULL,
              multibulk |-> [bulks |-> <<>>, size |-> CR_MULTIBULK_SIZE, len |-> 0,
                             alloc |-> PtrSize * CR_MULTIBULK_SIZE]]]

NoStart ==
  [on |-> FALSE, sent |-> <<>>, left |-> <<>>, s |-> <<>>, n |-> 0, tx |-> 0,
   before |-> cr_new]
NoTrace == [input |-> <<>>, calls |-> <<>>]

Init ==
  /\ pc = "idle" /\ cmd = "ping" /\ rhnd = cr_new /\ line = NULL
  /\ bnum = 0 /\ blen = 0 /\ i = 0
  /\ wire = [pending |-> <<>>, tail |-> "silent"]
  /\ rc = 0 /\ out = NoOut /\ ret = 0 /\ rl = 0 /\ handler = "none"
  /\ recvs = <<>> /\ ub = FALSE /\ cycles = 0
  /\ start = NoStart /\ trace = NoTrace

\* vsnprintf(data, size, ...) of a request of bytes req: what fits, and 0
vsnprintf(data, size, req) ==
  Overwrite(data, SubSeq(req, 1, Min(Len(req), size - 1)) \o <<NUL>>)

\* what cr_senddata returns for a request of n bytes: all sent, a timeout
\* after some, an error
cr_senddata(n) == {n, n - 1, -1}

\* cr_sendfandreceive that goes on to receive after a send that timed out
cr_sendfandreceiveAnyway(s, c, key, vsok, sent, reply, tail) ==
  LET req == Format(c, key)
      n == IF vsok THEN Len(req) ELSE -1
      t == [s EXCEPT !.cmd = c, !.out = NoOut, !.recvs = <<>>, !.line = NULL,
                     !.handler = "none",
                     !.rhnd.buf.len = n,
                     !.rhnd.buf.data = IF vsok THEN vsnprintf(@, s.rhnd.buf.size, req) ELSE @]
  IN IF n < 0 THEN Return(t, -1)
     ELSE IF n >= t.rhnd.buf.size THEN Return(t, -1)
     ELSE IF sent < 0 THEN Return(t, CREDIS_ERR_SEND)
          ELSE [t EXCEPT !.rhnd.buf.len = 0, !.rhnd.buf.idx = 0, !.pc = "reply",
                         !.wire = [pending |-> s.wire.pending \o reply, tail |-> tail]]

\* cr_sendfandreceive whose cr_receivereply does not reset the buffer
cr_sendfandreceiveNoReset(s, c, key, vsok, sent, reply, tail) ==
  LET req == Format(c, key)
      n == IF vsok THEN Len(req) ELSE -1
      t == [s EXCEPT !.cmd = c, !.out = NoOut, !.recvs = <<>>, !.line = NULL,
                     !.handler = "none",
                     !.rhnd.buf.len = n,
                     !.rhnd.buf.data = IF vsok THEN vsnprintf(@, s.rhnd.buf.size, req) ELSE @]
  IN IF n < 0 THEN Return(t, -1)
     ELSE IF n >= t.rhnd.buf.size THEN Return(t, -1)
     ELSE IF sent # n
          THEN IF sent < 0 THEN Return(t, CREDIS_ERR_SEND)
               ELSE Return(t, CREDIS_ERR_TIMEOUT)
          ELSE [t EXCEPT !.pc = "reply",
                         !.wire = [pending |-> s.wire.pending \o reply, tail |-> tail]]

\* cr_sendfandreceive up to the first cr_readln of cr_receivereply, for the
\* command c with key; vsok: vsnprintf did not fail; sent: cr_senddata's
\* result; the peer answers a request it got whole with reply, and then
\* behaves as tail says
cr_sendfandreceive(s, c, key, vsok, sent, reply, tail) ==
  LET req == Format(c, key)
      n == IF vsok THEN Len(req) ELSE -1
      t == [s EXCEPT !.cmd = c, !.out = NoOut, !.recvs = <<>>, !.line = NULL,
                     !.handler = "none",
                     !.rhnd.buf.len = n,
                     !.rhnd.buf.data = IF vsok THEN vsnprintf(@, s.rhnd.buf.size, req) ELSE @]
  IN IF n < 0 THEN Return(t, -1)
     ELSE IF n >= t.rhnd.buf.size THEN Return(t, -1)
     ELSE IF sent # n
          THEN IF sent < 0 THEN Return(t, CREDIS_ERR_SEND)
               ELSE Return(t, CREDIS_ERR_TIMEOUT)
          ELSE [t EXCEPT !.rhnd.buf.len = 0, !.rhnd.buf.idx = 0, !.pc = "reply",
                         !.wire = [pending |-> s.wire.pending \o reply, tail |-> tail]]

\* what the peer does about a request: it answers one it got whole
PeerReplies(all) == IF all THEN Replies ELSE {<<>>}
PeerTails(all) == IF all THEN {"silent", "closed", "error"} ELSE {wire.tail}

\* the command c is called with key
Request(c, key, vsok, sent, reply, tail) ==
  LET t == cr_sendfandreceive(M, c, key, vsok, sent, reply, tail) IN
  /\ Become(t)
  /\ start' = [on |-> t.pc = "reply", sent |-> reply, left |-> wire.pending,
               s |-> IF t.pc = "reply" THEN t ELSE <<>>,
               n |-> IF vsok THEN Len(Format(c, key)) ELSE -1,
               tx |-> sent, before |-> rhnd]
  /\ cycles' = cycles + 1
  /\ UNCHANGED trace

\* a command is called
Call ==
  /\ pc = "idle" /\ cycles < MaxCycles
  /\ \E c \in Commands, key \in Keys, vsok \in BOOLEAN :
       \E sent \in (IF vsok /\ Len(Format(c, key)) < CR_BUFFER_SIZE
                    THEN cr_senddata(Len(Format(c, key))) ELSE {-1}) :
         \E reply \in PeerReplies(vsok /\ sent = Len(Format(c, key))),
            tail \in PeerTails(vsok /\ sent = Len(Format(c, key))) :
           Request(c, key, vsok, sent, reply, tail)

\* cr_receivereply reads the reply's first line and dispatches on its tag
ReceiveReply ==
  /\ pc = "reply"
  /\ \E t \in Steps(M, FALSE) : Become(t)
  /\ UNCHANGED <<cycles, start, trace>>

\* cr_receivebulk reads the payload
ReceiveBulk ==
  /\ pc = "bulk"
  /\ \E t \in Steps(M, FALSE) : Become(t)
  /\ UNCHANGED <<cycles, start, trace>>

\* cr_receivemultibulk reads the line of the next element
MultibulkHeader ==
  /\ pc = "mb_hdr"
  /\ \E t \in Steps(M, FALSE) : Become(t)
  /\ UNCHANGED <<cycles, start, trace>>

\* cr_receivemultibulk reads the payload of an element
MultibulkPayload ==
  /\ pc = "mb_pay"
  /\ \E t \in Steps(M, FALSE) : Become(t)
  /\ UNCHANGED <<cycles, start, trace>>

\* the caller has the command's result and may call the next command;
\* the locals of the cycle are gone
Finish ==
  /\ pc = "done"
  /\ pc' = "idle"
  /\ line' = NULL /\ bnum' = 0 /\ blen' = 0 /\ i' = 0 /\ recvs' = <<>>
  /\ rc' = 0 /\ out' = NoOut /\ cmd' = "ping" /\ ret' = 0 /\ rl' = 0
  /\ handler' = "none" /\ start' = NoStart
  /\ UNCHANGED <<rhnd, wire, ub, cycles, trace>>

Next ==
  \/ Call
  \/ ReceiveReply
  \/ ReceiveBulk
  \/ MultibulkHeader
  \/ MultibulkPayload
  \/ Finish

Spec == Init /\ [][Next]_vars

\* ------------------------------------------------------------ outcomes

\* the states in which the cycle that is in state s can return; whole:
\* every receive returns all the bytes the peer has sent
RECURSIVE RunAll(_, _)
RunAll(s, whole) ==
  IF s.pc = "done" THEN {s}
  ELSE UNION {RunAll(t, whole) : t \in Steps(s, whole)}

\* the Reply a command of s's type reads after success: the strings its
\* pointers refer to, not the pointers
Parsed(s) ==
  LET d == s.rhnd.buf.data
      r == s.rhnd.reply
      T == RecvType(s.cmd)
  IN CASE T = CR_INLINE -> <<"status", Deref(d, r.line)>>
       [] T = CR_INT -> <<"int", r.integer>>
       [] T = CR_BULK -> <<"bulk", Deref(d, r.bulk)>>
       [] OTHER -> <<"multibulk", r.multibulk.len,
                     [k \in 1..r.multibulk.len |-> Deref(d, r.multibulk.bulks[k])]>>

\* what cr_receivereply returned, and the Reply if it succeeded
Outcome(s) == <<s.ret, IF s.ret = 0 THEN Parsed(s) ELSE <<>>>>

\* a request cycle that got as far as cr_receivereply has returned
CycleDone == pc = "done" /\ start.on

\* the first receive of the cycle returned all the peer had sent
DeliveredWhole ==
  recvs # <<>> /\ recvs[1] = Len(start.left) + Len(start.sent)

\* ------------------------------------------------------------ claims

\* C1: a well-formed status, integer, bulk or multi-bulk reply of the
\* expected type gives the same result and the same parsed Reply however
\* its bytes are split into receive chunks as when one receive delivers it.
C1_RefillTransparency ==
  (/\ CycleDone
   /\ start.sent \in StatusReplies \cup IntReplies \cup BulkSet \cup MultiBulkSet
   /\ Head(start.sent) = RecvType(cmd))
  => Outcome(M) \in {Outcome(t) : t \in RunAll(start.s, TRUE)}

\* C2: a get answered by "$-1\r\n" and nothing else succeeds with a null
\* bulk and makes no second receive.
C2_NullBulk ==
  (CycleDone /\ cmd = "get" /\ start.sent = BulkReply(Nil) /\ DeliveredWhole)
  => (ret = 0 /\ rhnd.reply.bulk = NULL /\ Len(recvs) = 1)

\* the offsets in a multi-bulk reply of the bulks bs at which an element
\* ends (0: the end of the count's line)
ElementEnds(bs) ==
  {Len(MultiBulkReply(<<>>)) + Len(BulkReplies(SubSeq(bs, 1, k))) : k \in 0..Len(bs)}

RECURSIVE Sum(_)
Sum(q) == IF q = <<>> THEN 0 ELSE Head(q) + Sum(Tail(q))

\* every receive of the cycle returned data that ends where an element of
\* the multi-bulk reply bs ends
ByElements(bs) ==
  \A k \in 1..Len(recvs) :
    recvs[k] > 0 /\ Sum(SubSeq(recvs, 1, k)) \in ElementEnds(bs)

\* C3: K well-formed bulks after a "*K" line, received element by element
\* or several at a time, give len = K, a null entry exactly for each -1,
\* and the payloads in wire order.
C3_MultiBulkCount ==
  \A bs \in SeqsUpTo(Bulks, MaxK) :
    (CycleDone /\ cmd = "keys" /\ start.sent = MultiBulkReply(bs) /\ ByElements(bs))
    => /\ ret = 0
       /\ rhnd.reply.multibulk.len = Len(bs)
       /\ \A k \in 1..Len(bs) :
            /\ (rhnd.reply.multibulk.bulks[k] = NULL) <=> (bs[k] = Nil)
            /\ bs[k] # Nil => Deref(rhnd.buf.data, rhnd.reply.multibulk.bulks[k]) = bs[k]

\* C4: a cycle that ends because the silent peer let the deadline pass
\* returns a value that the same cycle does not return when the peer
\* closes the socket instead.
C4_TimeoutNotClosed ==
  (CycleDone /\ start.sent = <<>> /\ recvs = <<-2>>)
  => \A t \in RunAll([start.s EXCEPT !.wire.tail = "closed"], FALSE) :
       t.ret # ret /\ t.rc # rc

\* the bytes of the cycle's first receive
FirstChunk ==
  IF recvs # <<>> /\ recvs[1] > 0
  THEN SubSeq(start.left \o start.sent, 1, recvs[1]) ELSE <<>>

\* where the first "\r\n" of the bytes b starts (0: there is none)
FirstCrlf(b) ==
  IF \E k \in 1..(Len(b) - 1) : b[k] = CR /\ b[k + 1] = LF
  THEN CHOOSE k \in 1..(Len(b) - 1) :
         /\ b[k] = CR /\ b[k + 1] = LF
         /\ \A j \in 1..(k - 1) : ~(b[j] = CR /\ b[j + 1] = LF)
  ELSE 0

\* the first receive brought a whole first line that has a tag byte
HasFirstLine == FirstCrlf(FirstChunk) > 1

FirstLine == SubSeq(FirstChunk, 1, FirstCrlf(FirstChunk) - 1)

\* C5: a first line whose tag is neither the expected one nor '-' makes
\* cr_receivereply return CREDIS_ERR_PROTOCOL without calling a handler
\* and without changing a field of the Reply.
C5_TagMismatch ==
  (CycleDone /\ HasFirstLine /\ FirstLine[1] \notin {RecvType(cmd), CR_ERROR})
  => /\ ret = CREDIS_ERR_PROTOCOL
     /\ handler = "none"
     /\ rhnd.reply = start.s.rhnd.reply

\* an integer was expected and a bulk came
C5_Witness ==
  /\ CycleDone /\ HasFirstLine /\ cmd = "exists" /\ FirstLine[1] = CR_BULK
  /\ ret = CREDIS_ERR_PROTOCOL

\* C6: a first line with the tag '-' makes the cycle fail, whatever type
\* was expected, and leaves the line's text after the tag as the Reply's
\* message.
C6_ErrorReply ==
  (CycleDone /\ HasFirstLine /\ FirstLine[1] = CR_ERROR)
  => /\ ret # 0 /\ rc = ret
     /\ Deref(rhnd.buf.data, rhnd.reply.line) = Tail(FirstLine)

\* a bulk was expected and "-ERR" came
C6_Witness ==
  /\ CycleDone /\ HasFirstLine /\ cmd = "get"
  /\ FirstLine = <<CR_ERROR, "E", "R", "R">>
  /\ Deref(rhnd.buf.data, rhnd.reply.line) = <<"E", "R", "R">>

\* a reply whose tag is neither T nor '-'
MismatchFor(T) == IF T = CR_INT THEN StatusReply(<<"O", "K">>) ELSE IntReply(1)

\* what the cycle returns when the peer's answer has the wrong tag
MismatchResults ==
  {t.ret : t \in RunAll([start.s EXCEPT !.wire.pending = MismatchFor(RecvType(cmd))], TRUE)}

\* C7: the value returned for an error-tagged reply is not the value
\* returned for a reply with the wrong tag.
C7_RemoteErrorDistinct ==
  (CycleDone /\ HasFirstLine /\ FirstLine[1] = CR_ERROR)
  => ret \notin MismatchResults

\* C9: a negating command returns -1 only after a cycle whose request was
\* sent whole and whose reply was received and parsed.
C9_NegatedNotFailure ==
  (pc = "done" /\ cmd \in Negating /\ rc = -1) => (start.on /\ ret = 0)

\* C10: cr_receivebulk with a declared length n >= 0 succeeds only when
\* the line it read has length n, and otherwise returns
\* CREDIS_ERR_PROTOCOL and leaves the bulk field alone.
C10_BulkLength ==
  (CycleDone /\ handler = "bulk" /\ blen >= 0)
  => /\ ret = 0 => rl = blen
     /\ rl # blen => (ret = CREDIS_ERR_PROTOCOL
                       /\ rhnd.reply.bulk = start.s.rhnd.reply.bulk)

\* C11: in every state the buffer's cursor and length satisfy
\* 0 <= idx <= len <= capacity.
C11_BufferInvariant ==
  /\ 0 <= rhnd.buf.idx
  /\ rhnd.buf.idx <= rhnd.buf.len
  /\ rhnd.buf.len <= rhnd.buf.size

\* the offsets of the buffer the scan of cr_readln(start) reads: each
\* offset it tests for '\r' up to the first "\r\n", and the offset after
\* one that holds '\r' or is not known to hold anything else
Examined(buf, skip) ==
  LET R == ScanRange(buf.idx + skip, buf.len - buf.idx)
      T == {p \in R : \A q \in R : q < p => ~Hit(buf.data, q)}
  IN T \cup {p + 1 : p \in {q \in T : MayBe(buf.data, q, CR)}}

\* the buffers the next call of cr_readln can scan: the buffer as it is,
\* or as each receive the peer allows refills it
ScannedBuffers ==
  IF Exhausted(rhnd.buf)
  THEN {Refill(rhnd.buf, rx) :
          rx \in {y \in cr_receivedata(wire, rhnd.buf.size, FALSE) : y.rc > 0}}
  ELSE {rhnd.buf}

\* the skip value of the call of cr_readln that is next
NextStart == IF pc \in {"bulk", "mb_pay"} THEN blen ELSE 0

\* a call of cr_readln is next
Reading == pc \in {"reply", "bulk", "mb_hdr", "mb_pay"}

\* C12: the delimiter search of every call cr_readln(start) reads only
\* offsets in [idx + start, len) of the buffer.
C12_ScanInsideData ==
  Reading =>
    \A b \in ScannedBuffers :
      \A p \in Examined(b, NextStart) :
        b.idx + NextStart <= p /\ p < b.len /\ InBuffer(p)

\* the entries the memory of the scratch array has room for
Capacity == rhnd.reply.multibulk.alloc \div PtrSize

\* C13: the scratch array never holds fewer entries than cr_new gave it,
\* and while cr_receivemultibulk records the entries of a reply of
\* declared count n its capacity is a multiple of CR_MULTIBULK_SIZE that
\* is at least n, so every recorded index is inside it.
C13_ScratchCapacity ==
  /\ Capacity >= CR_MULTIBULK_SIZE
  /\ (handler = "multibulk" /\ i > 0) =>
       /\ Capacity % CR_MULTIBULK_SIZE = 0
       /\ Capacity >= bnum + i
       /\ i <= Capacity
       /\ ~ub

\* the offsets in a multi-bulk reply of the bulks bs at which a line ends:
\* the count's line, each element's length line, each payload's line
LineEnds(bs) ==
  ElementEnds(bs) \cup
    {Len(MultiBulkReply(<<>>)) + Len(BulkReplies(SubSeq(bs, 1, k - 1)))
       + Len(BulkReply(<<>>)) - Len(CRLF) + Len(Itoa(Len(bs[k]))) - 1 :
       k \in {j \in 1..Len(bs) : bs[j] # Nil}}

\* the reply of the bulks bs came in several receives, each returning data
\* that ends where a line of the reply ends
ByLines(bs) ==
  /\ Len(recvs) >= 2
  /\ \A k \in 1..Len(recvs) :
       recvs[k] > 0 /\ Sum(SubSeq(recvs, 1, k)) \in LineEnds(bs)

\* C14: when a multi-bulk reply that arrived in several chunks split at
\* line ends has been assembled with success, every entry of a payload
\* still points at that payload's bytes.
C14_EntriesSurviveRefill ==
  \A bs \in SeqsUpTo(Bulks, MaxK) :
    (/\ CycleDone /\ cmd \in Arrays /\ ret = 0
     /\ start.sent = MultiBulkReply(bs) /\ ByLines(bs))
    => \A k \in {j \in 1..Len(bs) : bs[j] # Nil} :
         /\ k <= Len(rhnd.reply.multibulk.bulks)
         /\ rhnd.reply.multibulk.bulks[k] # NULL
         /\ Deref(rhnd.buf.data, rhnd.reply.multibulk.bulks[k]) = bs[k]

\* C15: when cr_receivemultibulk fails, multibulk.len is what it was
\* before the call, and the command returns the error and stores nothing
\* through its result parameter.
C15_NoPartialMultibulk ==
  (CycleDone /\ handler = "multibulk" /\ ret # 0)
  => /\ rhnd.reply.multibulk.len = start.before.reply.multibulk.len
     /\ ret = CREDIS_ERR_PROTOCOL /\ rc = ret
     /\ out = NoOut

\* an element was recorded before the second element's line was missing
C15_Witness ==
  /\ CycleDone /\ handler = "multibulk" /\ cmd = "lrange"
  /\ ret = CREDIS_ERR_PROTOCOL /\ i = 1 /\ bnum = 1
  /\ rhnd.reply.multibulk.len = 0 /\ out = NoOut

\* C19: a multi-bulk reply "*-1\r\n", alone and received whole, makes the
\* cycle succeed with a sequence of length 0 without reading an element's
\* line and without a second receive.
C19_MultibulkCountMinusOne ==
  (/\ CycleDone /\ cmd \in Arrays /\ DeliveredWhole
   /\ start.sent = <<CR_MULTIBULK>> \o Itoa(-1) \o CRLF)
  => /\ ret = 0 /\ rc = 0
     /\ rhnd.reply.multibulk.len = 0
     /\ Len(recvs) = 1

\* C16: cr_receivereply is entered exactly when cr_senddata returned the
\* request's length; after a shorter send the cycle ends with
\* CREDIS_ERR_TIMEOUT, after a negative one with CREDIS_ERR_SEND, both
\* without a receive and with the Reply as it was.
C16_SendBeforeReceive ==
  (pc # "idle" /\ pc # "lines") =>
    LET tried == start.n >= 0 /\ start.n < rhnd.buf.size IN
    /\ start.on <=> (tried /\ start.tx = start.n)
    /\ (tried /\ start.tx # start.n) =>
         /\ pc = "done" /\ recvs = <<>>
         /\ rhnd.reply = start.before.reply
         /\ ret = (IF start.tx < 0 THEN CREDIS_ERR_SEND ELSE CREDIS_ERR_TIMEOUT)
         /\ rc = ret /\ out = NoOut

\* a send timed out one byte short of the request
C16_Witness ==
  /\ pc = "done" /\ start.n > 0 /\ start.tx = start.n - 1
  /\ ~start.on /\ ret = CREDIS_ERR_TIMEOUT /\ recvs = <<>>

\* the buffer the scan of the call of cr_readln that made this step read:
\* the buffer before, refilled if it was exhausted
Buffered ==
  IF Exhausted(rhnd.buf)
  THEN LET got == recvs'[Len(recvs')] IN
       IF got > 0
       THEN Refill(rhnd.buf, [rc |-> got, bytes |-> SubSeq(wire.pending, 1, got)])
       ELSE [rhnd.buf EXCEPT !.idx = 0, !.len = 0]
  ELSE rhnd.buf

\* there is no "\r\n" in [idx + skip, len) of buf
NoDelimiter(buf, skip) ==
  \A p \in (buf.idx + skip)..(buf.len - 2) : ~Hit(buf.data, p)

\* C18: a call of cr_readln receives once if the buffer is exhausted and
\* not at all otherwise, and when the buffered data from idx + start on
\* holds no delimiter it fails and leaves idx and len as they were after
\* the refill.
C18_SingleReceive ==
  [][Reading =>
       /\ Len(recvs') = Len(recvs) + (IF Exhausted(rhnd.buf) THEN 1 ELSE 0)
       /\ NoDelimiter(Buffered, NextStart) =>
            /\ rl' <= 0
            /\ rhnd'.buf.idx = Buffered.idx
            /\ rhnd'.buf.len = Buffered.len]_vars

\* ------------------------------------------------------------ several cycles

\* bounds of a connection used for several commands in a row
MaxRounds == 2

RoundCommands == {"exists", "setnx", "get", "type", "lrem"}

RoundReplies ==
  {IntReply(0), IntReply(1), StatusReply(<<"O", "K">>), BulkReply(<<"a">>)}

\* a command is called on a connection that may have been used before
CallRound ==
  /\ pc = "idle" /\ cycles < MaxRounds
  /\ \E c \in RoundCommands :
       \E sent \in cr_senddata(Len(Format(c, ShortKey))) :
         \E reply \in (IF sent = Len(Format(c, ShortKey)) THEN RoundReplies ELSE {<<>>}),
            tail \in (IF sent = Len(Format(c, ShortKey))
                      THEN {"silent", "closed"} ELSE {wire.tail}) :
           Request(c, ShortKey, TRUE, sent, reply, tail)

NextRounds ==
  \/ CallRound
  \/ ReceiveReply
  \/ ReceiveBulk
  \/ Finish

SpecRounds == Init /\ [][NextRounds]_vars

\* what the handler of the first line's tag leaves of the line
FirstLineParsed ==
  LET tag == FirstLine[1]
      text == Tail(FirstLine)
  IN CASE tag \notin {RecvType(cmd), CR_ERROR} ->
            pc = "done" /\ ret = CREDIS_ERR_PROTOCOL /\ handler = "none"
       [] tag = CR_ERROR ->
            /\ pc = "done" /\ handler = "error"
            /\ Deref(rhnd.buf.data, rhnd.reply.line) = text
       [] tag = CR_INLINE ->
            /\ pc = "done" /\ handler = "inline" /\ ret = 0
            /\ Deref(rhnd.buf.data, rhnd.reply.line) = text
       [] tag = CR_INT ->
            /\ pc = "done" /\ handler = "int" /\ ret = 0
            /\ rhnd.reply.integer = atoi(text, 0)
       [] tag = CR_BULK -> handler = "bulk" /\ blen = atoi(text, 0)
       [] tag = CR_MULTIBULK -> handler = "multibulk"
       [] OTHER -> pc = "done" /\ ret = CREDIS_ERR_RECV

\* C17: whatever earlier cycles left in the buffer, the first line of a
\* reply is read after a receive of the current cycle and is the first
\* line of the bytes that receive returned; without such a line nothing
\* is parsed.
C17_Resynchronization ==
  (start.on /\ pc # "reply") =>
    /\ recvs # <<>>
    /\ HasFirstLine => FirstLineParsed
    /\ ~HasFirstLine =>
         pc = "done" /\ ret = CREDIS_ERR_RECV /\ handler = "none"
                     /\ rhnd.reply = start.before.reply

\* the second command on a connection whose buffer held unconsumed bytes
\* of the first reply has parsed an integer reply
C17_Witness ==
  /\ cycles = 2 /\ CycleDone /\ cmd = "exists" /\ ret = 0
  /\ start.before.buf.idx < start.before.buf.len
  /\ HasFirstLine /\ FirstLine = <<CR_INT, "1">> /\ rhnd.reply.integer = 1

\* what the command of this cycle returns from the same state of the
\* connection and the same receives, with a Reply no earlier cycle wrote
FreshResults ==
  {t.rc : t \in {u \in RunAll([start.s EXCEPT !.rhnd.reply = cr_new.reply], FALSE) :
                   u.recvs = recvs}}

\* C20: what a command returns after a successful cycle does not depend
\* on what earlier cycles left in the Reply.
C20_NoStaleReply ==
  (CycleDone /\ ret = 0) => rc \in FreshResults

\* ------------------------------------------------------------ the line reader alone

MaxLineInput == 6

\* the byte sequences of up to MaxLineInput bytes over a letter, '\r', '\n'
LineInputs == SeqsUpTo({"a", CR, LF}, MaxLineInput)

\* the segments of b that end at a "\r\n", in order
RECURSIVE Segments(_)
Segments(b) ==
  LET k == FirstCrlf(b) IN
  IF k = 0 THEN <<>>
  ELSE <<SubSeq(b, 1, k - 1)>> \o Segments(SubSeq(b, k + 2, Len(b)))

\* the peer has sent the bytes b, which one receive will buffer
InitLines ==
  /\ pc = "lines" /\ cmd = "ping" /\ rhnd = cr_new /\ line = NULL
  /\ bnum = 0 /\ blen = 0 /\ i = 0
  /\ rc = 0 /\ out = NoOut /\ ret = 0 /\ rl = 0 /\ handler = "none"
  /\ recvs = <<>> /\ ub = FALSE /\ cycles = 0 /\ start = NoStart
  /\ \E b \in LineInputs :
       /\ wire = [pending |-> b, tail |-> "silent"]
       /\ trace = [input |-> b, calls |-> <<>>]

\* cr_readln(rhnd, 0, &line), once for each "\r\n" of the input
ReadLine ==
  /\ pc = "lines"
  /\ Len(trace.calls) < Len(Segments(trace.input))
  /\ \E x \in Readln(M, 0, TRUE) :
       LET t == After(M, x) IN
       /\ Become(t)
       /\ trace' = [trace EXCEPT !.calls =
            Append(@, [ret |-> x.r.ret,
                       view |-> SubSeq(t.rhnd.buf.data, t.line + 1, t.line + x.r.ret),
                       str |-> Deref(t.rhnd.buf.data, t.line)])]
  /\ UNCHANGED <<cycles, start>>

NextLines == ReadLine

SpecLines == InitLines /\ [][NextLines]_vars

\* the offset just past the first n delimiters of b
RECURSIVE PastLines(_, _)
PastLines(b, n) ==
  IF n = 0 THEN 0
  ELSE FirstCrlf(b) + 1 + PastLines(SubSeq(b, FirstCrlf(b) + 2, Len(b)), n - 1)

\* C8: on a buffered input with N delimiters, the k-th of N calls
\* cr_readln(0) returns the k-th segment and its length, no segment holds a
\* delimiter, one receive is made, and idx is just past the delimiters read
\* so far: after the N-th, on the first trailing byte.
C8_LineExtraction ==
  pc = "lines" =>
    LET segs == Segments(trace.input)
        n == Len(trace.calls)
    IN /\ n <= Len(segs)
       /\ \A k \in 1..n :
            /\ trace.calls[k].ret = Len(segs[k])
            /\ trace.calls[k].view = segs[k]
            /\ trace.calls[k].str = segs[k]
            /\ FirstCrlf(trace.calls[k].view) = 0
       /\ rhnd.buf.idx = PastLines(trace.input, n)
       /\ Len(recvs) <= 1

\* all the lines of an input with an empty line, a second line and
\* trailing bytes have been read
C8_Witness ==
  /\ pc = "lines"
  /\ trace.input = <<CR, LF, "a", CR, LF>> \/ trace.input = <<"a", CR, LF, CR, LF>>
     \/ trace.input = <<CR, LF, CR, LF, "a">>
  /\ Len(trace.calls) = 2
  /\ rhnd.buf.idx = PastLines(trace.input, 2)

====
